---- MODULE Spec2Model ----
(***************************************************************************)
(* Tile geometry and sparse block routing of artifice's U-Net models       *)
(* (src/artifice/mod.py).                                                  *)
(*                                                                         *)
(* Spec     : a UNet is constructed and its geometry operations are called *)
(*            (shape computations, coordinate and distance conversions).   *)
(* SpecFwd  : a BetterSparseUNet or AutoSparseUNet is constructed and its   *)
(*            forward pass runs, one decoder level per step.  The sparse   *)
(*            layers (lay.ReduceMask, lay.SparseGather, lay.SparseScatter) *)
(*            are not part of the sources at hand; they follow the         *)
(*            specification's sections 4.2 to 4.4.                         *)
(* SpecOut  : a model of any of the four classes is constructed; build()   *)
(*            wires the graph of forward() and compiles it.                *)
(* SpecLay  : the sparse layers called on their own, on small tensors.     *)
(* SpecLife : a block-routed model in use: forward passes and geometry     *)
(*            calls, one at a time.                                        *)
(* SpecTrain: ArtificeModel.train, one test of its loop per step.          *)
(* SpecArtifice : Artifice.__call__ (src/artifice/main.py) running the     *)
(*            commands of the command line.                                *)
(* SpecPredict : the generator UNet.predict, one batch or one yielded      *)
(*            prediction per step.                                         *)
(*                                                                         *)
(* Points and distances are numpy floats holding dyadic rationals; a value *)
(* x is held exactly as the integer x * Scale.                             *)
(***************************************************************************)
EXTENDS Integers, Sequences, FiniteSets, TLC

\* ---------------------------------------------------------------- bounds
MaxBase == 4
MaxLevels == 3
MaxDepth == 2
MaxCoord == 2
MaxDist == 2
\* forward pass: base shapes of 4 .. MaxBaseF rows and no more columns,
\* square blocks of 2 .. MaxBlock, at most MaxHot mask
\* pixels (or blocks) above zero unless the whole mask is
MaxBaseF == 5
MaxBlock == 3
MaxBatch == 1
MaxHot == 1
\* construction: filter counts from 1 .. MaxFilters, pose_dim 1 .. MaxPoseDim
MaxFilters == 3
MaxPoseDim == 2
\* block indices 0 .. MaxGrid per dimension, where a claim ranges over a grid
MaxGrid == 1
\* the sparse layers on their own: MaxBatchL images of 2 .. MaxSide rows, as
\* many columns or one less, square blocks of 1 .. MaxBlockL, masks with at
\* most MaxHotL pixels set
MaxBatchL == 2
MaxSide == 3
MaxBlockL == 2
MaxHotL == 1
\* training: epoch numbers 0 .. MaxEpochs, `seconds` up to MaxSeconds and the
\* clock read up to one second past it
MaxEpochs == 3
MaxSeconds == 2
\* an Artifice object is given up to MaxCommands commands
MaxCommands == 3
\* UNet.predict: at most MaxBatches batches of 1 .. MaxBatchP tiles, images
\* of 1 .. MaxTiles tiles, models of 2 .. MaxHeads outputs
MaxBatches == 3
MaxBatchP == 2
MaxTiles == 3
MaxHeads == 3
\* predict's `if i % 100 == 0`
LogEvery == 100
\* tol and the mask values, in units of the default tol (0.5)
Tol == 1

RECURSIVE Pow2(_)
Pow2(k) == IF k <= 0 THEN 1 ELSE 2 * Pow2(k - 1)

\* Level arguments a caller may pass: valid, negative (python style) and bad.
LevelArgs == (0 - (MaxLevels + 1)) .. (MaxLevels + 1)

\* One unit of a point or distance: halving MaxLevels + 1 times stays exact.
Scale == Pow2(MaxLevels + 1)

Shapes == (1 .. MaxBase) \X (1 .. MaxBase)
Points == (0 .. MaxCoord) \X (0 .. MaxCoord)

\* ----------------------------------------------------------------- state
VARIABLES
  pc,                 \* "new": arguments chosen; "built": __init__ returned
  base_shape,         \* self.base_shape
  num_levels,         \* self.num_levels = len(level_filters)
  level_depth,        \* self.level_depth
  input_tile_shape,   \* self.input_tile_shape
  output_tile_shapes, \* self.output_tile_shapes
  call,               \* the last geometry or layer call: operation,
                      \* arguments, outcome
  prev,               \* the call before it, when the caller chains two calls
  variant,            \* the class constructed
  batch_size,         \* self.batch_size (0: None)
  block_size,         \* self.block_size
  blk,                \* the block sizes and strides BetterSparseUNet derives
  fpc,                \* position of the forward pass
  lvl,                \* forward's `level` of the decoder loop
  mask,               \* forward's `mask`: the current level's mask tensor
  bin_counts,         \* forward's `bin_counts`
  active_block_indices, \* forward's `active_block_indices`
  bin_couns,          \* forward's `bin_couns` (AutoSparseUNet, line 1071)
  outputs,            \* forward's `outputs`: the masks, coarsest first
  step,               \* what the last level's gathers and scatters were given
  level_filters,      \* self.level_filters, bottom level first
  pose_dim,           \* self.pose_dim
  model,              \* self.model: the outputs build() wired, the losses
  train,              \* ArtificeModel.train: arguments, locals, fit calls
  artifice,           \* Artifice.__call__: self.commands, commands run
  predict             \* UNet.predict: arguments, locals, predictions yielded

geomVars == <<pc, base_shape, num_levels, level_depth, input_tile_shape,
              output_tile_shapes, call, prev>>

fwdVars == <<variant, batch_size, block_size, blk, fpc, lvl, mask,
             bin_counts, active_block_indices, bin_couns, outputs, step>>

argVars == <<level_filters, pose_dim>>

runVars == <<train, artifice, predict>>

vars == <<geomVars, fwdVars, argVars, model, runVars>>

NoCall == [op |-> "none", arg |-> 0, level |-> 0, new_level |-> 0,
           status |-> "none", ret |-> 0, obj |-> 0]

NoBlockFields ==
  [level_input_tile_sizes |-> <<>>,
   level_input_block_size |-> <<0, 0>>,
   level_output_block_size |-> <<0, 0>>,
   block_stride |-> <<0, 0>>,
   level_input_block_stride |-> <<0, 0>>,
   level_output_block_stride |-> <<0, 0>>]

\* no call of train, of an Artifice object or of predict is under way
NoTrain == [pc |-> "none"]
NoArtifice == [pc |-> "none"]
NoPredict == [pc |-> "none"]
RunIdle == train = NoTrain /\ artifice = NoArtifice /\ predict = NoPredict

\* self.model before build() has run
NoModel == [outputs |-> <<>>, losses |-> 0]

NoStep == [level |-> 0, level_mask |-> <<>>, count |-> 0, indices |-> <<>>,
           gather_offsets |-> <<>>, scatter_offsets |-> <<>>]

\* ------------------------------------------------------- shape arithmetic
\* np.array arithmetic on a len-2 shape
ShapeTimes2(s) == <<2 * s[1], 2 * s[2]>>
ShapePlus(s, k) == <<s[1] + k, s[2] + k>>

\* the loop of compute_input_tile_shape_: (*= 2, += 2 * level_depth), k times
RECURSIVE InputLoop(_, _, _)
InputLoop(tile_shape, k, depth) ==
  IF k <= 0 THEN tile_shape
  ELSE InputLoop(ShapePlus(ShapeTimes2(tile_shape), 2 * depth), k - 1, depth)

compute_input_tile_shape_PadLast(base, n, depth) ==
  ShapePlus(InputLoop(base, n - 1, depth), 2 * depth)

compute_input_tile_shape_(base, n, depth) ==
  InputLoop(ShapePlus(base, 2 * depth), n - 1, depth)

\* one pass of the loop body of compute_output_tile_shapes_
OutputStepPadFirst(tile_shape, depth) ==
  ShapeTimes2(ShapePlus(tile_shape, 0 - 2 * depth))

OutputStepHalfPad(tile_shape, depth) ==
  ShapePlus(ShapeTimes2(tile_shape), 0 - depth)

OutputStep(tile_shape, depth) ==
  ShapePlus(ShapeTimes2(tile_shape), 0 - 2 * depth)

\* the loop of compute_output_tile_shapes_: appends one shape per pass
RECURSIVE OutputLoop(_, _, _, _)
OutputLoop(shapes, tile_shape, k, depth) ==
  IF k <= 0 THEN shapes
  ELSE LET next == OutputStep(tile_shape, depth)
       IN OutputLoop(Append(shapes, next), next, k - 1, depth)

compute_output_tile_shapes_(base, n, depth) ==
  OutputLoop(<<base>>, base, n - 1, depth)

\* ------------------------------------------------------ level conversion
\* _fix_level_index: err is the ValueError
_fix_level_index(level, n) ==
  IF level >= 0 THEN [err |-> FALSE, l |-> level]
  ELSE LET l == n + level
       IN IF l < 0 \/ l >= n THEN [err |-> TRUE, l |-> l]
          ELSE [err |-> FALSE, l |-> l]

\* point *= 2; point += level_depth
StepFiner(point, depth) ==
  <<2 * point[1] + depth * Scale, 2 * point[2] + depth * Scale>>

\* point /= 2; point -= level_depth
StepCoarser(point, depth) ==
  <<(point[1] \div 2) - depth * Scale, (point[2] \div 2) - depth * Scale>>

\* the two while loops of convert_point_between_levels
RECURSIVE PointLoop(_, _, _, _)
PointLoop(point, level, new_level, depth) ==
  IF level < new_level
    THEN PointLoop(StepFiner(point, depth), level + 1, new_level, depth)
  ELSE IF level > new_level
    THEN PointLoop(StepCoarser(point, depth), level - 1, new_level, depth)
  ELSE point

\* distance * 2**(new_level - level)
DistanceTimesPow_Flipped(distance, level, new_level) ==
  IF level >= new_level THEN distance * Pow2(level - new_level)
  ELSE distance \div Pow2(new_level - level)

DistanceTimesPow(distance, level, new_level) ==
  IF new_level >= level THEN distance * Pow2(new_level - level)
  ELSE distance \div Pow2(level - new_level)

\* ------------------------------------------- the graph forward() wires
\* a tensor as keras tracks it while the graph is wired: spatial shape and
\* channel count
Input(shape) == [shape |-> shape, channels |-> 0]

\* conv: a k x k convolution, 'valid' trims k - 1, 'same' keeps the shape
conv_AlwaysSame(t, filters, kernel, padding) ==
  [shape |-> t.shape, channels |-> filters]

conv(t, filters, kernel, padding) ==
  [shape |-> IF padding = "valid" THEN ShapePlus(t.shape, 0 - (kernel - 1))
             ELSE t.shape,
   channels |-> filters]

\* for _ in range(level_depth): inputs = conv(inputs, filters)
\* (each pass is evaluated, a tensor of `filters` channels, before the next)
RECURSIVE ConvLoop(_, _, _)
ConvLoop(t, filters, k) ==
  IF k <= 0 THEN t
  ELSE LET inputs == conv(t, filters, 3, "valid")
       IN IF inputs.channels = filters THEN ConvLoop(inputs, filters, k - 1)
          ELSE inputs

MaxPool2D(t) ==
  [shape |-> <<t.shape[1] \div 2, t.shape[2] \div 2>>, channels |-> t.channels]

conv_upsample(t, filters) ==
  [shape |-> ShapeTimes2(t.shape), channels |-> filters]

\* one returned tensor: the pose image, a level's mask, or plain features
Output(kind, level, t) ==
  [kind |-> kind, level |-> level, shape |-> t.shape, channels |-> t.channels]

\* the first loop of every forward: level_depth convolutions per level,
\* pooling between levels, filters taken from reversed(level_filters);
\* returns `inputs` at the bottom level
RECURSIVE Encoder(_, _, _, _)
Encoder(t, level, filters, depth) ==
  LET n == Len(filters)
      c == ConvLoop(t, filters[n - level], depth)
  IN IF level < n - 1 THEN Encoder(MaxPool2D(c), level + 1, filters, depth)
     ELSE c

\* the list level_outputs the first loop fills: the tensor of every level
\* but the bottom one, as it is before pooling, top level first
RECURSIVE level_outputs(_, _, _, _)
level_outputs(t, level, filters, depth) ==
  LET n == Len(filters)
      c == ConvLoop(t, filters[n - level], depth)
  IN IF level < n - 1
     THEN <<c>> \o level_outputs(MaxPool2D(c), level + 1, filters, depth)
     ELSE <<>>

\* int(np.floor(x / 2)) and int(np.ceil(x / 2))
FloorHalf(x) == x \div 2

CeilHalf(x) == 0 - ((0 - x) \div 2)

\* crop: Cropping2D by floor((in - size) / 2) before and ceil((in - size) / 2)
\* after, per dimension
crop(t, size) ==
  LET cropping == [d \in 1 .. 2 |-> <<FloorHalf(t.shape[d] - size[d]),
                                       CeilHalf(t.shape[d] - size[d])>>]
  IN [shape |-> [d \in 1 .. 2 |->
                   t.shape[d] - cropping[d][1] - cropping[d][2]],
      channels |-> t.channels,
      cropping |-> cropping]

\* keras.layers.Concatenate on the channel axis
Concatenate(a, b) == [shape |-> b.shape, channels |-> a.channels + b.channels]

\* the second loop of UNet.forward, from pass i on: upsample, concatenate
\* the cropped skip tensor (next(level_outputs) of the reversed list),
\* level_depth convolutions, the level's mask head
RECURSIVE Decoder(_, _, _, _, _)
Decoder(st, i, filters, depth, head_padding) ==
  IF i > Len(filters) - 1 THEN st
  ELSE LET inputs == conv_upsample(st.inputs, filters[i + 1])
           cropped == crop(st.level_outputs[Len(filters) - i], inputs.shape)
           t == ConvLoop(Concatenate(cropped, inputs), filters[i + 1], depth)
           head == conv(t, 1, 1, head_padding)
       IN Decoder([inputs |-> t,
                   outputs |-> Append(st.outputs, Output("mask", i, head)),
                   level_outputs |-> st.level_outputs],
                  i + 1, filters, depth, head_padding)

\* UNet.forward and SparseUNet.forward (whose masked layers keep the dense
\* layers' shapes): [pose_image] + outputs
forward(input_shape, filters, depth, pose, head_padding) ==
  LET bottom == Encoder(Input(input_shape), 0, filters, depth)
      head == conv(bottom, 1, 1, "valid")
      st == Decoder([inputs |-> bottom,
                     outputs |-> <<Output("mask", 0, head)>>,
                     level_outputs |->
                       level_outputs(Input(input_shape), 0, filters, depth)],
                    1, filters, depth, head_padding)
      pose_image == conv(st.inputs, 1 + pose, 1, "same")
  IN <<Output("pose", Len(filters) - 1, pose_image)>> \o st.outputs

\* compile: the pose loss and one loss per level
compile(n) == 1 + n

\* Builder.__call__: build() runs once __init__ has returned, and only then
Builder_call_BuildAlways(status, built) == built

Builder_call(status, built) == IF status = "built" THEN built ELSE NoModel

\* ------------------------------------------------------------- operations
GeomInit ==
  /\ pc = "new"
  /\ base_shape \in Shapes
  /\ num_levels \in 1 .. MaxLevels
  /\ level_depth \in 0 .. MaxDepth
  /\ input_tile_shape = <<>>
  /\ output_tile_shapes = <<>>
  /\ call = NoCall
  /\ prev = NoCall
  /\ variant = "UNet"
  /\ batch_size = 0
  /\ block_size = <<>>
  /\ blk = NoBlockFields
  /\ fpc = "idle"
  /\ lvl = 0
  /\ mask = <<>>
  /\ bin_counts = 0
  /\ active_block_indices = <<>>
  /\ bin_couns = 0
  /\ outputs = <<>>
  /\ step = NoStep
  /\ level_filters = [l \in 1 .. num_levels |-> l]
  /\ pose_dim = 1
  /\ model = NoModel
  /\ RunIdle

\* UNet.__init__: derives the tile shapes; no check of the result
UNetInit ==
  /\ pc = "new"
  /\ variant = "UNet"
  /\ input_tile_shape' =
       compute_input_tile_shape_(base_shape, num_levels, level_depth)
  /\ output_tile_shapes' =
       compute_output_tile_shapes_(base_shape, num_levels, level_depth)
  /\ pc' = "built"
  /\ model' =
       Builder_call("built",
         [outputs |->
            forward(compute_input_tile_shape_(base_shape, num_levels,
                                              level_depth),
                    level_filters, level_depth, pose_dim, "valid"),
          losses |-> compile(num_levels)])
  /\ UNCHANGED <<runVars, argVars, base_shape, num_levels, level_depth, call, prev,
                 fwdVars>>

\* a caller computes the shapes of the same base and depth for n levels,
\* once or twice in a row, passing self.base_shape; tile_shape is
\* np.array(base_shape), a copy, so the list passed (obj) keeps its value
ComputeOutputTileShapes_InPlace ==
  /\ pc = "built"
  /\ \/ call = NoCall
     \/ call.op = "output_shapes" /\ prev = NoCall
  /\ prev' = call
  /\ \E n \in 1 .. MaxLevels + 1 :
       LET ret == compute_output_tile_shapes_(base_shape, n, level_depth)
       IN /\ call' = [op |-> "output_shapes", arg |-> n, level |-> 0,
                      new_level |-> 0, status |-> "ok", ret |-> ret,
                      obj |-> ret[n]]
          /\ base_shape' = ret[n]
  /\ UNCHANGED <<runVars, argVars, model, pc, num_levels, level_depth,
                 input_tile_shape, output_tile_shapes, fwdVars>>

ComputeOutputTileShapes ==
  /\ pc = "built"
  /\ \/ call = NoCall
     \/ call.op = "output_shapes" /\ prev = NoCall
  /\ prev' = call
  /\ \E n \in 1 .. MaxLevels + 1 :
       call' = [op |-> "output_shapes", arg |-> n, level |-> 0,
                new_level |-> 0, status |-> "ok",
                ret |-> compute_output_tile_shapes_(base_shape, n, level_depth),
                obj |-> base_shape]
  /\ UNCHANGED <<runVars, argVars, model, pc, base_shape, num_levels, level_depth, input_tile_shape,
                 output_tile_shapes, fwdVars>>

ComputeInputTileShape ==
  /\ pc = "built"
  /\ call = NoCall
  /\ prev' = NoCall
  /\ \E n \in 1 .. MaxLevels + 1 :
       call' = [op |-> "input_shape", arg |-> n, level |-> 0,
                new_level |-> 0, status |-> "ok",
                ret |-> compute_input_tile_shape_(base_shape, n, level_depth),
                obj |-> base_shape]
  /\ UNCHANGED <<runVars, argVars, model, pc, base_shape, num_levels, level_depth, input_tile_shape,
                 output_tile_shapes, fwdVars>>

\* convert_point_between_levels on the array `point` (arg: its value before
\* the call, obj: the array after the call, ret: the returned value); the
\* loops work on the array in place and return it
convert_point_between_levels(point, level, new_level) ==
  LET a == _fix_level_index(level, num_levels)
      b == _fix_level_index(new_level, num_levels)
      out == PointLoop(point, a.l, b.l, level_depth)
  IN IF a.err \/ b.err
       THEN [op |-> "point", arg |-> point, level |-> level,
             new_level |-> new_level, status |-> "ValueError",
             ret |-> point, obj |-> point]
       ELSE [op |-> "point", arg |-> point, level |-> level,
             new_level |-> new_level, status |-> "ok",
             ret |-> out, obj |-> out]

ConvertPoint ==
  /\ pc = "built"
  /\ call = NoCall
  /\ prev' = NoCall
  /\ \E p \in Points, level \in LevelArgs, new_level \in LevelArgs :
       call' = convert_point_between_levels(
                 <<p[1] * Scale, p[2] * Scale>>, level, new_level)
  /\ UNCHANGED <<runVars, argVars, model, pc, base_shape, num_levels, level_depth, input_tile_shape,
                 output_tile_shapes, fwdVars>>

\* the caller converts the returned point back to the level it came from
ConvertPointBack ==
  /\ pc = "built"
  /\ call.op = "point"
  /\ call.status = "ok"
  /\ prev = NoCall
  /\ prev' = call
  /\ call' = convert_point_between_levels(call.ret, call.new_level, call.level)
  /\ UNCHANGED <<runVars, argVars, model, pc, base_shape, num_levels, level_depth, input_tile_shape,
                 output_tile_shapes, fwdVars>>

convert_distance_between_levels(distance, level, new_level) ==
  LET a == _fix_level_index(level, num_levels)
      b == _fix_level_index(new_level, num_levels)
  IN [op |-> "distance", arg |-> distance, level |-> level,
      new_level |-> new_level,
      status |-> IF a.err \/ b.err THEN "ValueError" ELSE "ok",
      ret |-> IF a.err \/ b.err THEN 0
              ELSE DistanceTimesPow(distance, a.l, b.l),
      obj |-> 0]

ConvertDistance ==
  /\ pc = "built"
  /\ call = NoCall
  /\ prev' = NoCall
  /\ \E d \in 0 .. MaxDist, level \in LevelArgs, new_level \in LevelArgs :
       call' = convert_distance_between_levels(d * Scale, level, new_level)
  /\ UNCHANGED <<runVars, argVars, model, pc, base_shape, num_levels, level_depth, input_tile_shape,
                 output_tile_shapes, fwdVars>>

\* the caller drops the results it holds; the model object stays
Forget ==
  /\ pc = "built"
  /\ call # NoCall
  /\ call' = NoCall
  /\ prev' = NoCall
  /\ UNCHANGED <<runVars, argVars, model, pc, base_shape, num_levels, level_depth, input_tile_shape,
                 output_tile_shapes, fwdVars>>

GeomNext ==
  \/ UNetInit
  \/ ComputeOutputTileShapes
  \/ ComputeInputTileShape
  \/ ConvertPoint
  \/ ConvertPointBack
  \/ ConvertDistance
  \/ Forget

\* ---------------------------------------------------------- sparse layers
Abs(x) == IF x < 0 THEN 0 - x ELSE x
Min(a, b) == IF a < b THEN a ELSE b

SetMax(S) == CHOOSE x \in S : \A y \in S : y <= x

RECURSIVE SmallSubsets(_, _)
SmallSubsets(S, m) ==
  IF m <= 0 THEN {{}}
  ELSE LET P == SmallSubsets(S, m - 1)
       IN P \cup {s \cup {x} : s \in P, x \in S}

\* positions <<image, row, column>> of a tensor of `batch` images of `shape`
Positions(batch, shape) ==
  (0 .. batch - 1) \X (0 .. shape[1] - 1) \X (0 .. shape[2] - 1)

\* blocks along one dimension; a partial last block is dropped
NumBlocks(extent, size, stride) ==
  IF extent < size \/ stride <= 0 THEN 0
  ELSE ((extent - size) \div stride) + 1

\* where block `index` = <<image, row block, column block>> starts
BlockOffset(index, stride) == <<index[2] * stride[1], index[3] * stride[2]>>

BlockActive_AtTol(m, index, size, stride, tol) ==
  LET off == BlockOffset(index, stride)
  IN \E i \in 0 .. size[1] - 1, j \in 0 .. size[2] - 1 :
       Abs(m[<<index[1], off[1] + i, off[2] + j>>]) >= tol

BlockActive(m, index, size, stride, tol) ==
  LET off == BlockOffset(index, stride)
  IN \E i \in 0 .. size[1] - 1, j \in 0 .. size[2] - 1 :
       Abs(m[<<index[1], off[1] + i, off[2] + j>>]) > tol

\* the k-th block (from 0) of the batch-major, row-major scan
ScanIndex_ColumnMajor(k, nr, nc) ==
  <<k \div (nr * nc), k % nr, (k % (nr * nc)) \div nr>>

ScanIndex(k, nr, nc) == <<k \div (nr * nc), (k % (nr * nc)) \div nc, k % nc>>

\* lay.ReduceMask: the active blocks of mask m, in scan order, and their count
ReduceMask(m, batch, shape, size, stride, tol) ==
  LET nr == NumBlocks(shape[1], size[1], stride[1])
      nc == NumBlocks(shape[2], size[2], stride[2])
      scan == [k \in 1 .. batch * nr * nc |-> ScanIndex(k - 1, nr, nc)]
      active == SelectSeq(scan,
                  LAMBDA ix : BlockActive(m, ix, size, stride, tol))
  IN [count |-> Len(active), indices |-> active]

InBlock(q, index, size, stride) ==
  LET off == BlockOffset(index, stride)
  IN /\ q[1] = index[1]
     /\ q[2] \in off[1] .. (off[1] + size[1] - 1)
     /\ q[3] \in off[2] .. (off[2] + size[2] - 1)

\* lay.SparseGather: one row per counted block, the crop of the block's image
\* at the block's offset; positions outside the tensor read as zero
SparseGather_Clamped(t, shape, count, indices, size, stride) ==
  [i \in 1 .. count |->
     [d \in (0 .. size[1] - 1) \X (0 .. size[2] - 1) |->
        LET off == BlockOffset(indices[i], stride)
        IN t[<<indices[i][1], Min(off[1] + d[1], shape[1] - 1),
               Min(off[2] + d[2], shape[2] - 1)>>]]]

SparseGather(t, shape, count, indices, size, stride) ==
  [i \in 1 .. count |->
     [d \in (0 .. size[1] - 1) \X (0 .. size[2] - 1) |->
        LET off == BlockOffset(indices[i], stride)
            q == <<indices[i][1], off[1] + d[1], off[2] + d[2]>>
        IN IF q[2] < shape[1] /\ q[3] < shape[2] THEN t[q] ELSE 0]]

\* lay.SparseScatter: a zero tensor of the target shape, then block i of the
\* first `count` index entries written at its offset (blocks[i][<<dy, dx>>] is
\* block i's value at row dy, column dx)
SparseScatter_Transposed(batch, shape, count, indices, size, stride, blocks) ==
  [q \in Positions(batch, shape) |->
     LET writers == {i \in 1 .. Min(count, Len(indices)) :
                       InBlock(q, indices[i], size, stride)}
     IN IF writers = {} THEN 0
        ELSE LET i == SetMax(writers)
                 off == BlockOffset(indices[i], stride)
             IN blocks[i][<<q[3] - off[2], q[2] - off[1]>>]]

SparseScatter(batch, shape, count, indices, size, stride, blocks) ==
  [q \in Positions(batch, shape) |->
     LET writers == {i \in 1 .. Min(count, Len(indices)) :
                       InBlock(q, indices[i], size, stride)}
     IN IF writers = {} THEN 0
        ELSE LET i == SetMax(writers)
                 off == BlockOffset(indices[i], stride)
             IN blocks[i][<<q[2] - off[1], q[3] - off[2]>>]]

\* ------------------------------------------------- block-routed models
\* the loop of compute_level_input_shapes_
RECURSIVE LevelInputLoop(_, _, _, _)
LevelInputLoop(shapes, tile_shape, k, depth) ==
  IF k <= 0 THEN shapes
  ELSE LET doubled == ShapeTimes2(tile_shape)
       IN LevelInputLoop(Append(shapes, doubled),
                         ShapePlus(doubled, 0 - 2 * depth), k - 1, depth)

compute_level_input_shapes_(base, n, depth) ==
  LevelInputLoop(<<ShapePlus(base, 2 * depth)>>, base, n - 1, depth)

\* the block sizes and strides BetterSparseUNet.__init__ derives; the strides
\* stay unset when the assertion on level_depth fails
BlockFields_ScatterAtBlockStride(base, n, depth, size) ==
  LET stride == ShapePlus(size, 0 - (depth \div 2))
      in_size == ShapeTimes2(size)
      out_size == ShapePlus(in_size, 0 - 2 * depth)
      even == depth % 2 = 0
  IN [level_input_tile_sizes |-> compute_level_input_shapes_(base, n, depth),
      level_input_block_size |-> in_size,
      level_output_block_size |-> out_size,
      block_stride |-> IF even THEN stride ELSE <<0, 0>>,
      level_input_block_stride |->
        IF even THEN ShapeTimes2(stride) ELSE <<0, 0>>,
      level_output_block_stride |-> IF even THEN stride ELSE <<0, 0>>]

\* the skip blocks gathered with the halo of the convolutions added
BlockFields_InputBlockWithHalo(base, n, depth, size) ==
  LET stride == ShapePlus(size, 0 - (depth \div 2))
      in_size == ShapePlus(ShapeTimes2(size), 2 * depth)
      out_size == ShapePlus(in_size, 0 - 2 * depth)
      even == depth % 2 = 0
  IN [level_input_tile_sizes |-> compute_level_input_shapes_(base, n, depth),
      level_input_block_size |-> in_size,
      level_output_block_size |-> out_size,
      block_stride |-> IF even THEN stride ELSE <<0, 0>>,
      level_input_block_stride |->
        IF even THEN ShapeTimes2(stride) ELSE <<0, 0>>,
      level_output_block_stride |-> IF even THEN out_size ELSE <<0, 0>>]

BlockFields(base, n, depth, size) ==
  LET stride == ShapePlus(size, 0 - (depth \div 2))
      in_size == ShapeTimes2(size)
      out_size == ShapePlus(in_size, 0 - 2 * depth)
      even == depth % 2 = 0
  IN [level_input_tile_sizes |-> compute_level_input_shapes_(base, n, depth),
      level_input_block_size |-> in_size,
      level_output_block_size |-> out_size,
      block_stride |-> IF even THEN stride ELSE <<0, 0>>,
      level_input_block_stride |->
        IF even THEN ShapeTimes2(stride) ELSE <<0, 0>>,
      level_output_block_stride |-> IF even THEN out_size ELSE <<0, 0>>]

\* the blocks of one decoder pass of BetterSparseUNet.forward (the passes of
\* AutoSparseUNet.forward are the same): the features gathered with block_size
\* and upsampled, the skip connection gathered with level_input_block_size,
\* the level_depth convolutions, and the block size the scatter is given;
\* `from` names the count and the index list a gather is handed
BlockPass(fields, size, in_channels, filters, depth) ==
  LET gathered == [shape |-> size, channels |-> in_channels]
      blocks == conv_upsample(gathered, filters)
      blocked == [shape |-> fields.level_input_block_size]
  IN [blocks |-> [shape |-> blocks.shape,
                  from |-> <<"bin_counts", "active_block_indices">>],
      blocked |-> [shape |-> blocked.shape,
                   from |-> <<"bin_counts", "active_block_indices">>],
      convolved |-> ConvLoop(blocks, filters, depth),
      scatter_size |-> fields.level_output_block_size]

\* BetterSparseUNet.forward as wired (AutoSparseUNet.forward has the same
\* structure), from decoder pass `level` on: every pass scatters the blocks
\* into output_tile_shapes[level]; the last pass gives them the pose head
RECURSIVE SparseDecoder(_, _, _, _, _, _)
SparseDecoder(st, level, filters, depth, pose, shapes) ==
  IF level > Len(filters) - 1 THEN st
  ELSE LET fields == BlockFields(base_shape, Len(filters), depth, block_size)
           convolved == BlockPass(fields, block_size, st.inputs.channels,
                                  filters[level + 1], depth).convolved
           last == level = Len(filters) - 1
           blocks == IF last THEN conv(convolved, 1 + pose, 1, "same")
                     ELSE convolved
           scattered == [shape |-> shapes[level + 1],
                         channels |-> blocks.channels]
           level_mask == [shape |-> shapes[level + 1], channels |-> 1]
       IN SparseDecoder(
            [inputs |-> Output(IF last THEN "pose" ELSE "features", level,
                               scattered),
             outputs |-> Append(st.outputs, Output("mask", level, level_mask))],
            level + 1, filters, depth, pose, shapes)

\* outputs = [inputs] + outputs
BetterSparseUNet_forward(input_shape, filters, depth, pose, shapes) ==
  LET bottom == Encoder(Input(input_shape), 0, filters, depth)
      head == conv(bottom, 1, 1, "valid")
      st == SparseDecoder([inputs |-> Output("features", 0, bottom),
                           outputs |-> <<Output("mask", 0, head)>>],
                          1, filters, depth, pose, shapes)
  IN <<st.inputs>> \o st.outputs

\* what BetterSparseUNet.__init__ ends with: the batch size check, then the
\* assertion on level_depth
BetterSparseUNet_init_NoAssert(batch, depth) ==
  IF batch = 0 THEN "ValueError" ELSE "built"

BetterSparseUNet_init(batch, depth) ==
  IF batch = 0 THEN "ValueError"
  ELSE IF depth % 2 # 0 THEN "AssertionError"
  ELSE "built"

FwdInit ==
  /\ pc = "new"
  /\ base_shape \in {s \in (4 .. MaxBaseF) \X (4 .. MaxBaseF) : s[1] >= s[2]}
  /\ num_levels \in 1 .. MaxLevels
  /\ level_depth \in 0 .. MaxDepth
  /\ input_tile_shape = <<>>
  /\ output_tile_shapes = <<>>
  /\ call = NoCall
  /\ prev = NoCall
  /\ variant \in {"BetterSparseUNet", "AutoSparseUNet"}
  /\ batch_size \in 0 .. MaxBatch
  /\ block_size \in {<<b, b>> : b \in 2 .. MaxBlock}
  /\ blk = NoBlockFields
  /\ fpc = "idle"
  /\ lvl = 0
  /\ mask = <<>>
  /\ bin_counts = 0
  /\ active_block_indices = <<>>
  /\ bin_couns = 0
  /\ outputs = <<>>
  /\ step = NoStep
  /\ level_filters = [l \in 1 .. num_levels |-> l]
  /\ pose_dim = 1
  /\ model = NoModel
  /\ RunIdle

\* BetterSparseUNet.__init__ (AutoSparseUNet adds only gamma): the UNet and
\* SparseUNet constructors, the batch size check, the block sizes and strides
SparseInit ==
  /\ pc = "new"
  /\ variant \in {"BetterSparseUNet", "AutoSparseUNet"}
  /\ input_tile_shape' =
       compute_input_tile_shape_(base_shape, num_levels, level_depth)
  /\ output_tile_shapes' =
       compute_output_tile_shapes_(base_shape, num_levels, level_depth)
  /\ LET status == BetterSparseUNet_init(batch_size, level_depth)
     IN /\ pc' = status
        /\ blk' = IF status = "ValueError" THEN blk
                  ELSE BlockFields(base_shape, num_levels, level_depth,
                                   block_size)
        /\ model' =
             Builder_call(status,
               [outputs |->
                  BetterSparseUNet_forward(
                    compute_input_tile_shape_(base_shape, num_levels,
                                              level_depth),
                    level_filters, level_depth, pose_dim,
                    compute_output_tile_shapes_(base_shape, num_levels,
                                                level_depth)),
                losses |-> compile(num_levels)])
  /\ UNCHANGED <<runVars, argVars, base_shape, num_levels, level_depth, call, prev,
                 variant, batch_size, block_size, fpc, lvl, mask, bin_counts,
                 active_block_indices, bin_couns, outputs, step>>

\* SparseUNet.__init__ and build: the masked-sparse model takes any batch
\* size, None included
SparseUNetInit ==
  /\ pc = "new"
  /\ variant = "SparseUNet"
  /\ input_tile_shape' =
       compute_input_tile_shape_(base_shape, num_levels, level_depth)
  /\ output_tile_shapes' =
       compute_output_tile_shapes_(base_shape, num_levels, level_depth)
  /\ pc' = "built"
  /\ model' =
       Builder_call("built",
         [outputs |->
            forward(compute_input_tile_shape_(base_shape, num_levels,
                                              level_depth),
                    level_filters, level_depth, pose_dim, "same"),
          losses |-> compile(num_levels)])
  /\ UNCHANGED <<runVars, argVars, base_shape, num_levels, level_depth, call, prev,
                 variant, batch_size, block_size, blk, fpc, lvl, mask,
                 bin_counts, active_block_indices, bin_couns, outputs, step>>

\* a tensor that is v on the positions of `hot` and 0 elsewhere
HotTensor(batch, shape, hot, v) ==
  [q \in Positions(batch, shape) |-> IF q \in hot THEN v ELSE 0]

\* the bottom mask heads the encoder may produce: at most MaxHot non-zero
\* pixels, or every pixel non-zero; values at tol, above it, or below -tol
BottomMasks(batch, shape) ==
  LET P == Positions(batch, shape)
  IN {HotTensor(batch, shape, hot, v) :
        hot \in SmallSubsets(P, MaxHot) \cup {P},
        v \in {Tol, Tol + 1, 0 - (Tol + 1)}}

\* forward, lines 855-872 (990-1011): the encoder, the bottom mask head and
\* the first ReduceMask
FwdBottom ==
  /\ pc = "built"
  /\ fpc = "idle"
  /\ \E m \in BottomMasks(batch_size, output_tile_shapes[1]) :
       \E r \in {ReduceMask(m, batch_size, output_tile_shapes[1], block_size,
                            blk.block_stride, Tol)} :
          /\ mask' = m
          /\ outputs' = <<m>>
          /\ bin_counts' = r.count
          /\ active_block_indices' = r.indices
  /\ lvl' = 1
  /\ fpc' = "loop"
  /\ UNCHANGED <<runVars, argVars, model, geomVars, variant, batch_size, block_size, blk, bin_couns,
                 step>>

\* the values a level's mask head gives block i: 0 unless i is in `hot`
MaskBlockValue(hot, kind, i, dy, dx) ==
  IF i \notin hot THEN 0
  ELSE IF kind = "corner" THEN (IF dy = 0 /\ dx = 0 THEN Tol + 1 ELSE 0)
  ELSE IF kind = "at" THEN Tol
  ELSE Tol + 1

\* the mask head's output blocks, one per gathered block
MaskBlocks(rows, size, hot, kind) ==
  [i \in rows |->
     [d \in (0 .. size[1] - 1) \X (0 .. size[2] - 1) |->
        MaskBlockValue(hot, kind, i, d[1], d[2])]]

\* the (count, indices) pair the loop body hands to its gathers and scatters
GatherArgs == [count |-> bin_counts, indices |-> active_block_indices]

\* the selector's result the end of AutoSparseUNet's loop body keeps:
\* the count goes to bin_couns, the indices replace active_block_indices
Reselect(new_mask, shape) ==
  ReduceMask(new_mask, batch_size, shape, block_size, blk.block_stride, Tol)

\* forward, one pass of the decoder loop, lines 875-930 (1014-1074): both
\* gathers, the convolutions, both scatters, and AutoSparseUNet's ReduceMask
FwdLevel ==
  /\ pc = "built"
  /\ fpc = "loop"
  /\ lvl < num_levels
  /\ LET args == GatherArgs
         shape == output_tile_shapes[lvl + 1]
         rows == 1 .. Min(args.count, Len(args.indices))
     IN \E hot \in SmallSubsets(rows, MaxHot) \cup {rows},
           kind \in {"at", "above", "corner"} :
          \E scattered \in
               {SparseScatter(batch_size, shape, args.count, args.indices,
                              blk.level_output_block_size,
                              blk.level_output_block_stride,
                              MaskBlocks(rows,
                                blk.level_output_block_size, hot, kind))} :
           \E r \in {Reselect(scattered, shape)} :
             /\ mask' = scattered
             /\ outputs' = Append(outputs, scattered)
             /\ step' = [level |-> lvl, level_mask |-> mask,
                         count |-> args.count, indices |-> args.indices,
                         gather_offsets |->
                           [i \in rows |-> BlockOffset(args.indices[i],
                                             blk.level_input_block_stride)],
                         scatter_offsets |->
                           [i \in rows |-> BlockOffset(args.indices[i],
                                             blk.level_output_block_stride)]]
             /\ IF variant = "AutoSparseUNet"
                  THEN /\ bin_couns' = r.count
                       /\ active_block_indices' = r.indices
                  ELSE UNCHANGED <<bin_couns, active_block_indices>>
  /\ lvl' = lvl + 1
  /\ UNCHANGED <<runVars, argVars, model, geomVars, variant, batch_size, block_size, blk, fpc,
                 bin_counts>>

\* forward, line 932: the loop is over, the outputs are returned
FwdReturn_WhenEmpty ==
  /\ pc = "built"
  /\ fpc = "loop"
  /\ lvl = num_levels \/ bin_counts = 0
  /\ fpc' = "done"
  /\ UNCHANGED <<runVars, argVars, model, geomVars, variant, batch_size, block_size,
                 blk, lvl, mask, bin_counts, active_block_indices, bin_couns,
                 outputs, step>>

FwdReturn ==
  /\ pc = "built"
  /\ fpc = "loop"
  /\ lvl = num_levels
  /\ fpc' = "done"
  /\ UNCHANGED <<runVars, argVars, model, geomVars, variant, batch_size, block_size, blk, lvl, mask,
                 bin_counts, active_block_indices, bin_couns, outputs, step>>

\* the next batch: forward's locals are gone
FwdAgain ==
  /\ pc = "built"
  /\ fpc = "done"
  /\ fpc' = "idle"
  /\ lvl' = 0
  /\ mask' = <<>>
  /\ bin_counts' = 0
  /\ active_block_indices' = <<>>
  /\ bin_couns' = 0
  /\ outputs' = <<>>
  /\ step' = NoStep
  /\ UNCHANGED <<runVars, argVars, model, geomVars, variant, batch_size, block_size, blk>>

FwdNext ==
  \/ SparseInit
  \/ FwdBottom
  \/ FwdLevel
  \/ FwdReturn
  \/ FwdAgain

\* the filter lists drawn: f, f + 1, ... from the bottom level up
FilterLists ==
  {[l \in 1 .. n |-> f + l - 1] : n \in 1 .. MaxLevels, f \in 1 .. MaxFilters}

\* a model of any of the four classes is about to be constructed; the base
\* shape is square or one row taller
OutInit ==
  /\ pc = "new"
  /\ variant \in {"UNet", "SparseUNet", "BetterSparseUNet", "AutoSparseUNet"}
  /\ base_shape \in {s \in Shapes : s[1] - s[2] \in {0, 1}}
  /\ level_filters \in FilterLists
  /\ num_levels = Len(level_filters)
  /\ pose_dim \in 1 .. MaxPoseDim
  /\ level_depth \in 0 .. MaxDepth
  /\ batch_size \in 0 .. MaxBatch
  /\ block_size \in {<<b, b>> : b \in 2 .. MaxBlock}
  /\ input_tile_shape = <<>>
  /\ output_tile_shapes = <<>>
  /\ call = NoCall
  /\ prev = NoCall
  /\ blk = NoBlockFields
  /\ fpc = "idle"
  /\ lvl = 0
  /\ mask = <<>>
  /\ bin_counts = 0
  /\ active_block_indices = <<>>
  /\ bin_couns = 0
  /\ outputs = <<>>
  /\ step = NoStep
  /\ model = NoModel
  /\ RunIdle

OutNext ==
  \/ UNetInit
  \/ SparseUNetInit
  \/ SparseInit

\* ------------------------------------------- the sparse layers, called
\* the masks handed to the selector: at most MaxHotL pixels at v, or all
\* pixels but at most one; v at tol, above it, or below -tol
LayMasks(batch, shape) ==
  LET P == Positions(batch, shape)
      few == SmallSubsets(P, MaxHotL)
  IN {HotTensor(batch, shape, hot, v) :
        hot \in few \cup {P \ {q} : q \in P} \cup {P},
        v \in {Tol, Tol + 1, 0 - (Tol + 1)}}

\* a dense tensor whose values tell its positions apart
Ramp(batch, shape) ==
  [q \in Positions(batch, shape) |->
     1 + (q[1] * shape[1] + q[2]) * shape[2] + q[3]]

\* no model is constructed: the layers are applied to tensors directly
LayInit ==
  /\ pc = "lay"
  /\ base_shape = <<>>
  /\ num_levels = 0
  /\ level_depth = 0
  /\ input_tile_shape = <<>>
  /\ output_tile_shapes = <<>>
  /\ call = NoCall
  /\ prev = NoCall
  /\ variant = "none"
  /\ batch_size = 0
  /\ block_size = <<>>
  /\ blk = NoBlockFields
  /\ fpc = "idle"
  /\ lvl = 0
  /\ mask = <<>>
  /\ bin_counts = 0
  /\ active_block_indices = <<>>
  /\ bin_couns = 0
  /\ outputs = <<>>
  /\ step = NoStep
  /\ level_filters = <<>>
  /\ pose_dim = 0
  /\ model = NoModel
  /\ RunIdle

\* ReduceMask(block_size, block_stride, tol)(mask)
LayReduceMask ==
  /\ pc = "lay"
  /\ call = NoCall
  /\ prev' = NoCall
  /\ \E batch \in 1 .. MaxBatchL, rows \in 2 .. MaxSide, size \in 1 .. MaxBlockL :
       \E cols \in {rows - 1, rows} \ {1}, stride \in 1 .. size :
        \E m \in LayMasks(batch, <<rows, cols>>) :
         call' = [op |-> "ReduceMask",
                  arg |-> [tensor |-> m, batch |-> batch,
                           shape |-> <<rows, cols>>, size |-> <<size, size>>,
                           stride |-> <<stride, stride>>],
                  level |-> 0, new_level |-> 0, status |-> "ok",
                  ret |-> ReduceMask(m, batch, <<rows, cols>>, <<size, size>>,
                                     <<stride, stride>>, Tol),
                  obj |-> 0]
  /\ UNCHANGED <<runVars, argVars, model, pc, base_shape, num_levels, level_depth,
                 input_tile_shape, output_tile_shapes, fwdVars>>

\* SparseGather(block_size, block_stride)([tensor, count, indices]) with the
\* selector's result, the block size as selected or one wider (a halo)
LaySparseGather ==
  /\ pc = "lay"
  /\ call.op = "ReduceMask"
  /\ prev' = call
  /\ \E halo \in 0 .. 1 :
       LET a == call.arg
           t == Ramp(a.batch, a.shape)
           size == ShapePlus(a.size, halo)
       IN call' = [op |-> "SparseGather",
                   arg |-> [tensor |-> t, batch |-> a.batch,
                            shape |-> a.shape, size |-> size,
                            stride |-> a.stride, count |-> call.ret.count,
                            indices |-> call.ret.indices],
                   level |-> 0, new_level |-> 0, status |-> "ok",
                   ret |-> SparseGather(t, a.shape, call.ret.count,
                                        call.ret.indices, size, a.stride),
                   obj |-> 0]
  /\ UNCHANGED <<runVars, argVars, model, pc, base_shape, num_levels, level_depth,
                 input_tile_shape, output_tile_shapes, fwdVars>>

\* SparseScatter(shape, block_size, block_stride)([blocks, count, indices])
\* with the gathered rows, the gather's block set, size and stride
LaySparseScatter ==
  /\ pc = "lay"
  /\ call.op = "SparseGather"
  /\ prev' = call
  /\ LET a == call.arg
     IN call' = [op |-> "SparseScatter",
                 arg |-> a,
                 level |-> 0, new_level |-> 0, status |-> "ok",
                 ret |-> SparseScatter(a.batch, a.shape, a.count, a.indices,
                                       a.size, a.stride, call.ret),
                 obj |-> 0]
  /\ UNCHANGED <<runVars, argVars, model, pc, base_shape, num_levels, level_depth,
                 input_tile_shape, output_tile_shapes, fwdVars>>

\* the caller drops the tensors it holds
LayForget ==
  /\ pc = "lay"
  /\ call # NoCall
  /\ call' = NoCall
  /\ prev' = NoCall
  /\ UNCHANGED <<runVars, argVars, model, pc, base_shape, num_levels, level_depth,
                 input_tile_shape, output_tile_shapes, fwdVars>>

LayNext ==
  \/ LayReduceMask
  \/ LaySparseGather
  \/ LaySparseScatter
  \/ LayForget

\* ------------------------------------------------- ArtificeModel.train
\* the state of the other routines while no U-Net object is looked at
NoUNet ==
  /\ pc = "none"
  /\ base_shape = <<>>
  /\ num_levels = 0
  /\ level_depth = 0
  /\ input_tile_shape = <<>>
  /\ output_tile_shapes = <<>>
  /\ call = NoCall
  /\ prev = NoCall
  /\ variant = "none"
  /\ batch_size = 0
  /\ block_size = <<>>
  /\ blk = NoBlockFields
  /\ fpc = "idle"
  /\ lvl = 0
  /\ mask = <<>>
  /\ bin_counts = 0
  /\ active_block_indices = <<>>
  /\ bin_couns = 0
  /\ outputs = <<>>
  /\ step = NoStep
  /\ level_filters = <<>>
  /\ pose_dim = 0
  /\ model = NoModel

\* the epochs a history covers are kept as the list of their numbers
EpochRange(a, b) == [k \in 1 .. (b - a) |-> a + k - 1]

\* fit(art_data, hist=hist, initial_epoch=a, epochs=b): keras fits epochs
\* a .. b - 1 (none when a >= b); _update_hist puts them after hist
fit(hist, a, b) == hist \o EpochRange(a, b)

\* train is entered: the history file is loaded when initial_epoch > 0 and
\* the file is there (and overwrite is off), else hist = {}
TrainInit ==
  /\ NoUNet
  /\ artifice = NoArtifice
  /\ predict = NoPredict
  /\ \E initial_epoch \in 0 .. MaxEpochs, epochs \in -1 .. MaxEpochs,
        seconds \in -1 .. MaxSeconds, loaded \in BOOLEAN :
       /\ loaded => initial_epoch > 0
       /\ train = [pc |-> "while",
                   initial_epoch |-> initial_epoch,
                   epochs |-> epochs,
                   seconds |-> seconds,
                   loaded |-> IF loaded THEN EpochRange(0, initial_epoch)
                              ELSE <<>>,
                   hist |-> IF loaded THEN EpochRange(0, initial_epoch)
                            ELSE <<>>,
                   epoch |-> initial_epoch,
                   elapsed |-> 0,
                   fits |-> <<>>,
                   saved |-> FALSE]

\* while epoch != epochs and time() - start_time > seconds > 0: one test of
\* the condition, with the clock read at or after the last reading, and the
\* loop body when it holds
TrainWhile ==
  /\ train.pc = "while"
  /\ \E now \in train.elapsed .. MaxSeconds + 1 :
       IF /\ train.epoch # train.epochs
          /\ now > train.seconds
          /\ train.seconds > 0
       THEN /\ train.epoch <= MaxEpochs
            /\ train' =
                 [train EXCEPT
                    !.elapsed = now,
                    !.hist = fit(train.hist, train.epoch, train.epoch + 1),
                    !.fits = Append(@, [hist |-> train.hist,
                                        initial_epoch |-> train.epoch,
                                        epochs |-> train.epoch + 1]),
                    !.epoch = @ + 1]
       ELSE train' = [train EXCEPT !.elapsed = now, !.pc = "if"]
  /\ UNCHANGED <<geomVars, fwdVars, argVars, model, artifice, predict>>

\* if epoch != epochs: one fit for all the epochs left
TrainIf ==
  /\ train.pc = "if"
  /\ train' =
       IF train.epoch # train.epochs
       THEN [train EXCEPT
               !.hist = fit(train.hist, train.epoch, train.epochs),
               !.fits = Append(@, [hist |-> train.hist,
                                   initial_epoch |-> train.epoch,
                                   epochs |-> train.epochs]),
               !.pc = "save"]
       ELSE [train EXCEPT !.pc = "save"]
  /\ UNCHANGED <<geomVars, fwdVars, argVars, model, artifice, predict>>

\* self.save(); return hist
TrainSave ==
  /\ train.pc = "save"
  /\ train' = [train EXCEPT !.saved = TRUE, !.pc = "done"]
  /\ UNCHANGED <<geomVars, fwdVars, argVars, model, artifice, predict>>

TrainNext == TrainWhile \/ TrainIf \/ TrainSave

SpecTrain == TrainInit /\ [][TrainNext]_vars

\* --------------------------------------------- Artifice.__call__ (main.py)
\* command names, character by character: two public methods, a private
\* method, a data attribute (self.show), a name that is no attribute, and
\* the empty string
CommandNames ==
  {<<"t", "r", "a", "i", "n">>,
   <<"c", "l", "e", "a", "n">>,
   <<"_", "l", "o", "a", "d", "_", "t", "e", "s", "t">>,
   <<"s", "h", "o", "w">>,
   <<"f", "i", "t">>,
   <<>>}

Methods ==
  {<<"t", "r", "a", "i", "n">>,
   <<"c", "l", "e", "a", "n">>,
   <<"_", "l", "o", "a", "d", "_", "t", "e", "s", "t">>}

hasattr(command) == command \in Methods \cup {<<"s", "h", "o", "w">>}
callable(command) == command \in Methods

RECURSIVE CommandLists(_)
CommandLists(n) ==
  IF n <= 0 THEN {<<>>}
  ELSE LET shorter == CommandLists(n - 1)
       IN shorter \cup {Append(l, c) : l \in {x \in shorter : Len(x) = n - 1},
                                        c \in CommandNames}

ArtificeInit ==
  /\ NoUNet
  /\ train = NoTrain
  /\ predict = NoPredict
  /\ \E commands \in CommandLists(MaxCommands) :
       artifice = [pc |-> "for", commands |-> commands, pos |-> 1,
                   ran |-> <<>>]

\* one pass of `for command in self.commands`: command[0] is read first,
\* then hasattr and callable; a command that passes is called
ArtificeCommand ==
  /\ artifice.pc = "for"
  /\ artifice.pos <= Len(artifice.commands)
  /\ LET command == artifice.commands[artifice.pos]
     IN artifice' =
          IF Len(command) = 0
          THEN [artifice EXCEPT !.pc = "IndexError"]
          ELSE IF command[1] = "_" \/ ~hasattr(command) \/ ~callable(command)
          THEN [artifice EXCEPT !.pc = "RuntimeError"]
          ELSE [artifice EXCEPT !.ran = Append(@, command), !.pos = @ + 1]
  /\ UNCHANGED <<geomVars, fwdVars, argVars, model, train, predict>>

\* the list is exhausted: __call__ returns
ArtificeReturn ==
  /\ artifice.pc = "for"
  /\ artifice.pos > Len(artifice.commands)
  /\ artifice' = [artifice EXCEPT !.pc = "done"]
  /\ UNCHANGED <<geomVars, fwdVars, argVars, model, train, predict>>

ArtificeNext == ArtificeCommand \/ ArtificeReturn

SpecArtifice == ArtificeInit /\ [][ArtificeNext]_vars

\* ----------------------------------------------------------- UNet.predict
\* self.model.predict_on_batch(batch): one tensor per head, each with one
\* entry per tile of the batch; an entry is told apart by batch number,
\* place in the batch and head
predict_on_batch(b, size, heads) ==
  [h \in 1 .. heads |-> [k \in 1 .. size |-> <<b, k, h>>]]

\* _unbatch_outputs: one list per tile of the batch (outputs[0].shape[0] of
\* them), holding the tile's entry of every head
_unbatch_outputs(batched) ==
  [k \in 1 .. Len(batched[1]) |->
     [h \in 1 .. Len(batched) |-> batched[h][k]]]

BatchLists ==
  UNION {[1 .. n -> 1 .. MaxBatchP] : n \in 0 .. MaxBatches}

\* predict(art_data) is called and the generator is started: batches is what
\* art_data.prediction_input() will give (the tiles per batch); `bound`
\* tells whether the local `outputs` has been assigned
PredictInit ==
  /\ NoUNet
  /\ train = NoTrain
  /\ artifice = NoArtifice
  /\ \E batches \in BatchLists, num_tiles \in 1 .. MaxTiles,
        heads \in 2 .. MaxHeads, eager \in BOOLEAN :
       predict = [pc |-> "start",
                  eager |-> eager,
                  batches |-> batches,
                  num_tiles |-> num_tiles,
                  heads |-> heads,
                  i |-> 0,
                  bound |-> FALSE,
                  outputs |-> <<>>,
                  yielded |-> <<>>]

\* if tf.executing_eagerly(): outputs = []
PredictStart ==
  /\ predict.pc = "start"
  /\ predict' = [predict EXCEPT !.pc = "for", !.bound = predict.eager]
  /\ UNCHANGED <<geomVars, fwdVars, argVars, model, train, artifice>>

\* for i, batch in enumerate(art_data.prediction_input()): the next batch is
\* taken and, if i % 100 == 0, its unbatched outputs are put after
\* `outputs` (an UnboundLocalError when `outputs` was never assigned); when
\* the input is exhausted the else clause of the for raises
PredictFor ==
  /\ predict.pc = "for"
  /\ IF predict.i >= Len(predict.batches)
       THEN predict' = [predict EXCEPT !.pc = "NotImplementedError"]
     ELSE IF predict.i % LogEvery = 0
       THEN IF predict.bound
              THEN predict' =
                     [predict EXCEPT
                        !.pc = "while",
                        !.outputs =
                          predict.outputs \o
                            _unbatch_outputs(
                              predict_on_batch(predict.i,
                                               predict.batches[predict.i + 1],
                                               predict.heads))]
            ELSE predict' = [predict EXCEPT !.pc = "UnboundLocalError"]
     ELSE predict' = [predict EXCEPT !.pc = "while"]
  /\ UNCHANGED <<geomVars, fwdVars, argVars, model, train, artifice>>

\* while len(outputs) >= art_data.num_tiles: a prediction is yielded and
\* del outputs[:num_tiles] removes what it was made from (kept in yielded);
\* when the test fails the for loop goes on
PredictWhile ==
  /\ predict.pc = "while"
  /\ IF ~predict.bound
       THEN predict' = [predict EXCEPT !.pc = "UnboundLocalError"]
     ELSE IF Len(predict.outputs) >= predict.num_tiles
       THEN predict' =
              [predict EXCEPT
                 !.yielded = Append(predict.yielded,
                                    SubSeq(predict.outputs, 1,
                                           predict.num_tiles)),
                 !.outputs = SubSeq(predict.outputs, predict.num_tiles + 1,
                                    Len(predict.outputs))]
     ELSE predict' = [predict EXCEPT !.pc = "for", !.i = predict.i + 1]
  /\ UNCHANGED <<geomVars, fwdVars, argVars, model, train, artifice>>

PredictNext == PredictStart \/ PredictFor \/ PredictWhile

SpecPredict == PredictInit /\ [][PredictNext]_vars

Init == GeomInit

Next == GeomNext

Spec == Init /\ [][Next]_vars

SpecFwd == FwdInit /\ [][FwdNext]_vars

SpecOut == OutInit /\ [][OutNext]_vars

SpecLay == LayInit /\ [][LayNext]_vars

\* a block-routed model in use: between forward passes the caller makes
\* geometry calls, one at a time
LifeNext ==
  \/ SparseInit
  \/ fpc = "idle" /\ ComputeOutputTileShapes
  \/ fpc = "idle" /\ ComputeInputTileShape
  \/ fpc = "idle" /\ ConvertPoint
  \/ fpc = "idle" /\ ConvertPointBack
  \/ fpc = "idle" /\ ConvertDistance
  \/ fpc = "idle" /\ Forget
  \/ call = NoCall /\ FwdBottom
  \/ call = NoCall /\ FwdLevel
  \/ call = NoCall /\ FwdReturn
  \/ call = NoCall /\ FwdAgain

SpecLife == FwdInit /\ [][LifeNext]_vars

\* ================================================================ claims
\* what the claims call a normalized level index
NormLevel(level) == IF level < 0 THEN num_levels + level ELSE level
ValidLevel(level) == NormLevel(level) \in 0 .. (num_levels - 1)
Last(seq) == seq[Len(seq)]

AllPositive(shapes) ==
  \A l \in 1 .. Len(shapes) : \A i \in 1 .. 2 : shapes[l][i] > 0

\* a valid pyramid: every level's output shape is positive
ValidPyramid == pc = "built" /\ AllPositive(output_tile_shapes)

ShapesFollowRecurrence(shapes, base, n, depth) ==
  /\ Len(shapes) = n
  /\ shapes[1] = base
  /\ \A l \in 2 .. n : \A i \in 1 .. 2 :
       shapes[l][i] = 2 * shapes[l - 1][i] - 2 * depth

\* C1: the per-level output shape list has n entries, entry 0 is the base
\* shape and every later entry is twice the one before it minus twice the
\* level depth, for the shapes __init__ stores and for every direct call.
C1_OutputShapesFollowRecurrence ==
  /\ pc = "built" =>
       ShapesFollowRecurrence(output_tile_shapes, base_shape, num_levels,
                              level_depth)
  /\ call.op = "output_shapes" =>
       ShapesFollowRecurrence(call.ret, base_shape, call.arg, level_depth)

\* base (4,4), 3 levels, depth 2 gives (4,4) at every level
C1_Witness ==
  /\ call.op = "output_shapes"
  /\ base_shape = <<4, 4>> /\ call.arg = 3 /\ level_depth = 2
  /\ call.ret = <<<<4, 4>>, <<4, 4>>, <<4, 4>>>>

\* the claim's procedure in one dimension: base + 2d, then k times (x2, +2d)
RECURSIVE ClaimedInputDim(_, _, _)
ClaimedInputDim(b, k, depth) ==
  IF k = 0 THEN b + 2 * depth
  ELSE 2 * ClaimedInputDim(b, k - 1, depth) + 2 * depth

ClaimedInput(base, n, depth) ==
  <<ClaimedInputDim(base[1], n - 1, depth),
    ClaimedInputDim(base[2], n - 1, depth)>>

\* C2: the input tile shape is the base shape plus 2d, then n-1 times
\* (times 2, plus 2d), in each dimension; in closed form
\* 2^(n-1) * base + 2d * (2^n - 1).
C2_InputShapeAddsPaddingThenDoubles ==
  /\ pc = "built" =>
       /\ input_tile_shape = ClaimedInput(base_shape, num_levels, level_depth)
       /\ \A i \in 1 .. 2 :
            input_tile_shape[i] = Pow2(num_levels - 1) * base_shape[i]
                                  + 2 * level_depth * (Pow2(num_levels) - 1)
  /\ call.op = "input_shape" =>
       call.ret = ClaimedInput(base_shape, call.arg, level_depth)

C2_Witness ==
  /\ call.op = "input_shape"
  /\ base_shape = <<1, 2>> /\ call.arg = 3 /\ level_depth = 2
  /\ call.ret = <<32, 36>>

\* the claim's conversion: finer 2p + d, coarser (p - d) / 2, one level a step
RECURSIVE ClaimedConvertDim(_, _, _, _)
ClaimedConvertDim(x, level, new_level, depth) ==
  IF level < new_level
    THEN ClaimedConvertDim(2 * x + depth * Scale, level + 1, new_level, depth)
  ELSE IF level > new_level
    THEN ClaimedConvertDim((x - depth * Scale) \div 2, level - 1, new_level,
                           depth)
  ELSE x

\* an integer point whose claimed image at the other level is an integer too
AlignedPoint(point, level, new_level) ==
  \A i \in 1 .. 2 :
    /\ point[i] % Scale = 0
    /\ ClaimedConvertDim(point[i], level, new_level, level_depth) % Scale = 0

\* C3: in a valid pyramid, converting an integer point aligned to the halving
\* grid from level a to level b and the result back from b to a returns the
\* point, for all levels a, b in [0, numLevels).
C3_RoundTripReturnsPoint ==
  (/\ ValidPyramid
   /\ call.op = "point" /\ prev.op = "point"
   /\ call.status = "ok"
   /\ prev.level \in 0 .. (num_levels - 1)
   /\ prev.new_level \in 0 .. (num_levels - 1)
   /\ AlignedPoint(prev.arg, prev.level, prev.new_level))
  => call.ret = prev.arg

\* C4: the conversion moves one level at a time, a finer step mapping p to
\* 2p + levelDepth and a coarser step mapping p to (p - levelDepth) / 2, and
\* equal levels return the point unchanged.
C4_ConversionStepsAsClaimed ==
  (/\ ValidPyramid
   /\ call.op = "point" /\ call.status = "ok"
   /\ ValidLevel(call.level) /\ ValidLevel(call.new_level))
  => \A i \in 1 .. 2 :
       call.ret[i] = ClaimedConvertDim(call.arg[i], NormLevel(call.level),
                                       NormLevel(call.new_level), level_depth)

\* C5: a level index is normalized (negative k meaning numLevels + k) and the
\* call is rejected exactly when a normalized index is outside [0, numLevels).
C5_OutOfRangeLevelsRejected ==
  (ValidPyramid /\ call.op \in {"point", "distance"})
  => (call.status = "ValueError"
      <=> ~(ValidLevel(call.level) /\ ValidLevel(call.new_level)))

\* C6: a distance converted between normalized levels a and b is the distance
\* times 2^(b - a); between equal levels it is unchanged.
C6_DistanceScalesByPowerOfTwo ==
  (call.op = "distance" /\ call.status = "ok")
  => LET a == NormLevel(call.level)
         b == NormLevel(call.new_level)
     IN /\ b >= a => call.ret = call.arg * Pow2(b - a)
        /\ b < a => call.ret * Pow2(a - b) = call.arg
        /\ a = b => call.ret = call.arg

\* distance 2 from the finest of 3 levels (index -1) to level 0 is 1/2
C6_Witness ==
  /\ call.op = "distance" /\ call.status = "ok"
  /\ num_levels = 3 /\ call.level = 0 - 1 /\ call.new_level = 0
  /\ call.arg = 2 * Scale /\ 2 * call.ret = Scale

\* C7: no pyramid is constructed, and no shape list is returned, with a
\* dimension <= 0: the computation reports a configuration error instead.
C7_NonPositiveShapeRejected ==
  /\ pc = "built" => AllPositive(output_tile_shapes)
  /\ (call.op = "output_shapes" /\ call.status = "ok") => AllPositive(call.ret)

TwoShapeCalls ==
  /\ call.op = "output_shapes" /\ prev.op = "output_shapes"
  /\ call.arg = prev.arg + 1

\* C8 as stated: with one more level the finest output shape is at least as
\* large, in each dimension, for every base shape and level depth (here: of
\* pyramids whose shapes are all positive).
C8_FinestOutputGrowsWithLevels ==
  (TwoShapeCalls /\ AllPositive(call.ret))
  => \A i \in 1 .. 2 : Last(call.ret)[i] >= Last(prev.ret)[i]

\* C8 amended: in a dimension where the base is at least twice the level
\* depth the finest output is at least as large with one more level; in a
\* dimension where it is smaller the finest output strictly shrinks.
C8_FinestOutputGrowsWhenBaseCoversPadding ==
  TwoShapeCalls
  => \A i \in 1 .. 2 :
       /\ base_shape[i] >= 2 * level_depth
            => Last(call.ret)[i] >= Last(prev.ret)[i]
       /\ base_shape[i] < 2 * level_depth
            => Last(call.ret)[i] < Last(prev.ret)[i]

\* base (4,3), depth 1: 2 levels end at (6,4), 3 levels at (10,6)
C8_Witness ==
  /\ TwoShapeCalls
  /\ base_shape = <<4, 3>> /\ level_depth = 1
  /\ Last(prev.ret) = <<6, 4>> /\ Last(call.ret) = <<10, 6>>

\* a level has run in a model whose tile shapes and scatter blocks are positive
LevelRan ==
  /\ step.level > 0
  /\ AllPositive(output_tile_shapes)
  /\ \A i \in 1 .. 2 : blk.level_output_block_size[i] > 0

\* the selector's result on the mask a level started with
FreshBlockSet ==
  ReduceMask(step.level_mask, batch_size, output_tile_shapes[step.level],
             block_size, blk.block_stride, Tol)

\* C9: at every level the active-block set handed to the level's gathers and
\* scatters is the selector's result on the current mask (the bottom mask
\* head at the first sparse level, afterwards the mask scattered one level
\* below), count and index list alike.
C9_LevelUsesFreshBlockSet ==
  LevelRan
  => /\ step.count = FreshBlockSet.count
     /\ step.indices = FreshBlockSet.indices

\* what d valid 3x3 convolutions trim off each side of a gathered block, and
\* off each side of the level's input tile
BlockHalo(i) ==
  (blk.level_input_block_size[i] - blk.level_output_block_size[i]) \div 2
TileHalo(i) ==
  (blk.level_input_tile_sizes[step.level + 1][i]
   - output_tile_shapes[step.level + 1][i]) \div 2

\* C10: for every block the scatter offset in the level's output tensor is
\* the position of the gathered block's interior: the gather offset plus the
\* trimmed halo, in the input tile, is the scatter offset plus the tile's own
\* trimmed border.
C10_ScatterOffsetIsGatheredInterior ==
  LevelRan
  => \A k \in DOMAIN step.scatter_offsets : \A i \in 1 .. 2 :
       step.scatter_offsets[k][i] + TileHalo(i)
         = step.gather_offsets[k][i] + BlockHalo(i)

\* the whole block grid of the level's mask, in scan order
WholeGrid ==
  LET shape == output_tile_shapes[step.level]
      nr == NumBlocks(shape[1], block_size[1], blk.block_stride[1])
      nc == NumBlocks(shape[2], block_size[2], blk.block_stride[2])
  IN [k \in 1 .. batch_size * nr * nc |-> ScanIndex(k - 1, nr, nc)]

\* the selector's blocks leave no position of the level's mask out
GridCoversMask ==
  \A q \in Positions(batch_size, output_tile_shapes[step.level]) :
    \E k \in DOMAIN WholeGrid :
      InBlock(q, WholeGrid[k], block_size, blk.block_stride)

\* the blocks of the level's scatter that write output position q
Writers(q) ==
  {i \in 1 .. Min(step.count, Len(step.indices)) :
     InBlock(q, step.indices[i], blk.level_output_block_size,
             blk.level_output_block_stride)}

\* C11: when the level's gathers and scatters are handed every block of the
\* grid (a grid that covers the level's mask), every position of the level's
\* output tensor is written by exactly one block.
C11_FullGridTilesOutput ==
  (/\ LevelRan
   /\ GridCoversMask
   /\ step.indices = WholeGrid
   /\ step.count = Len(WholeGrid))
  => \A q \in Positions(batch_size, output_tile_shapes[step.level + 1]) :
       Cardinality(Writers(q)) = 1

BlockRouted == variant \in {"BetterSparseUNet", "AutoSparseUNet"}

\* the block indices of a (MaxGrid + 1) x (MaxGrid + 1) grid per image, and
\* the output positions blocks of that grid can reach
GridIndices == (0 .. batch_size - 1) \X (0 .. MaxGrid) \X (0 .. MaxGrid)
GridBox ==
  (0 .. batch_size - 1)
    \X (0 .. (MaxGrid + 1) * blk.level_output_block_size[1] - 1)
    \X (0 .. (MaxGrid + 1) * blk.level_output_block_size[2] - 1)

\* C12: a constructed block-routed model scatters with the output block
\* stride equal to the output block size, and under it no output position
\* lies in the write regions of two distinct blocks.
C12_ScatterRegionsDisjoint ==
  (pc = "built" /\ BlockRouted)
  => /\ blk.level_output_block_stride = blk.level_output_block_size
     /\ \A q \in GridBox :
          Cardinality({i \in GridIndices :
                         InBlock(q, i, blk.level_output_block_size,
                                 blk.level_output_block_stride)}) <= 1

\* depth 2, block size 3: 2 x 2 output blocks; rows 1 and 2 of column 1 are
\* written by the neighbouring blocks (0,0) and (1,0)
C12_Witness ==
  /\ pc = "built" /\ BlockRouted
  /\ blk.level_output_block_size = <<2, 2>>
  /\ InBlock(<<0, 1, 1>>, <<0, 0, 0>>, blk.level_output_block_size,
             blk.level_output_block_stride)
  /\ InBlock(<<0, 2, 1>>, <<0, 1, 0>>, blk.level_output_block_size,
             blk.level_output_block_stride)

\* the selector's grid for a ReduceMask call: every block that lies inside
\* the mask, as a set
CallGrid ==
  LET a == call.arg
  IN (0 .. a.batch - 1)
       \X (0 .. NumBlocks(a.shape[1], a.size[1], a.stride[1]) - 1)
       \X (0 .. NumBlocks(a.shape[2], a.size[2], a.stride[2]) - 1)

\* the largest absolute mask value inside a block
MaxAbs(m, index, size, stride) ==
  SetMax({Abs(m[<<index[1], index[2] * stride[1] + i,
                  index[3] * stride[2] + j>>]) :
            i \in 0 .. size[1] - 1, j \in 0 .. size[2] - 1})

Listed(indices) == {indices[k] : k \in 1 .. Len(indices)}

\* C13: a block of the grid is listed as active exactly when the largest
\* absolute mask value inside it is strictly greater than tol; an all-zero
\* mask gives an empty list and count 0.
C13_ActiveIffAboveTol ==
  call.op = "ReduceMask"
  => LET a == call.arg
     IN /\ \A index \in CallGrid :
             index \in Listed(call.ret.indices)
               <=> MaxAbs(a.tensor, index, a.size, a.stride) > Tol
        /\ (\A q \in DOMAIN a.tensor : a.tensor[q] = 0)
             => call.ret.count = 0 /\ call.ret.indices = <<>>

\* one pixel exactly at tol, the rest zero: no block is active
C13_Witness ==
  /\ call.op = "ReduceMask"
  /\ call.arg.shape = <<3, 3>> /\ call.arg.size = <<2, 2>>
  /\ call.arg.tensor[<<0, 1, 1>>] = Tol
  /\ \A q \in DOMAIN call.arg.tensor :
       q # <<0, 1, 1>> => call.arg.tensor[q] = 0
  /\ call.ret.count = 0

\* batch-major, then row-major: image, then row block, then column block
ScansBefore(x, y) ==
  \/ x[1] < y[1]
  \/ x[1] = y[1] /\ x[2] < y[2]
  \/ x[1] = y[1] /\ x[2] = y[2] /\ x[3] < y[3]

\* C14: the list holds blocks of the grid, each at most once and in
\* batch-major, row-major scan order, and count is the number of listed
\* blocks over the whole batch.
C14_ListedOnceInScanOrder ==
  call.op = "ReduceMask"
  => /\ call.ret.count = Len(call.ret.indices)
     /\ call.ret.count = Cardinality(Listed(call.ret.indices))
     /\ Listed(call.ret.indices) \subseteq CallGrid
     /\ \A i, j \in 1 .. Len(call.ret.indices) :
          i < j => ScansBefore(call.ret.indices[i], call.ret.indices[j])

\* two images of 3 x 2 pixels, 1 x 1 blocks, one pixel of image 0 unset: the
\* five blocks of image 0 row by row, then the six of image 1
C14_Witness ==
  /\ call.op = "ReduceMask"
  /\ call.arg.batch = 2 /\ call.arg.shape = <<3, 2>>
  /\ call.arg.size = <<1, 1>>
  /\ call.ret.count = 11
  /\ call.ret.indices[1] = <<0, 0, 0>>
  /\ call.ret.indices[2] = <<0, 1, 0>>
  /\ call.ret.indices[3] = <<0, 1, 1>>
  /\ call.ret.indices[6] = <<1, 0, 0>>
  /\ call.ret.indices[7] = <<1, 0, 1>>

\* the crop of image index[1] of t at the block's offset, zero outside of t
Crop(t, index, size, stride) ==
  [d \in (0 .. size[1] - 1) \X (0 .. size[2] - 1) |->
     LET q == <<index[1], index[2] * stride[1] + d[1],
                index[3] * stride[2] + d[2]>>
     IN IF q \in DOMAIN t THEN t[q] ELSE 0]

\* C15: gather returns count rows; row i is the crop of the i-th block's
\* image at index times stride, of the gather block size, zero outside the
\* tensor; it is the row a gather of that block alone returns.
C15_GatherRowIsCrop ==
  call.op = "SparseGather"
  => LET a == call.arg
     IN /\ DOMAIN call.ret = 1 .. a.count
        /\ \A i \in 1 .. a.count :
             /\ call.ret[i] = Crop(a.tensor, a.indices[i], a.size, a.stride)
             /\ call.ret[i] = SparseGather(a.tensor, a.shape, 1,
                                           <<a.indices[i]>>, a.size,
                                           a.stride)[1]

\* 2 x 2 blocks gathered one wider at stride 2 from a 3 x 3 tensor: the
\* block's third row and column lie outside and read as zero
C15_Witness ==
  /\ call.op = "SparseGather"
  /\ call.arg.shape = <<3, 3>> /\ call.arg.size = <<3, 3>>
  /\ call.arg.stride = <<1, 1>>
  /\ call.arg.count = 4
  /\ call.arg.indices[4] = <<0, 1, 1>>
  /\ call.ret[4][<<0, 0>>] = call.arg.tensor[<<0, 1, 1>>]
  /\ call.ret[4][<<2, 2>>] = 0
  /\ call.ret[1][<<2, 2>>] = call.arg.tensor[<<0, 2, 2>>]

\* C16: scattering the gathered rows with the gather's block set, size and
\* stride gives the original tensor at every position inside a listed block
\* and zero at every other position.
C16_GatherScatterRoundTrip ==
  call.op = "SparseScatter"
  => LET a == call.arg
     IN \A q \in Positions(a.batch, a.shape) :
          call.ret[q] =
            IF \E k \in 1 .. a.count :
                 InBlock(q, a.indices[k], a.size, a.stride)
              THEN a.tensor[q]
              ELSE 0

\* a 3 x 2 tensor, one block listed, of size 2 x 2 at rows 1 and 2: its
\* positions come back, row 0 stays zero
C16_Witness ==
  /\ call.op = "SparseScatter"
  /\ call.arg.shape = <<3, 2>> /\ call.arg.size = <<2, 2>>
  /\ call.arg.stride = <<1, 1>>
  /\ call.arg.count = 1
  /\ call.arg.indices = <<<<0, 1, 0>>>>
  /\ call.ret[<<0, 2, 1>>] = call.arg.tensor[<<0, 2, 1>>]
  /\ call.arg.tensor[<<0, 0, 0>>] # 0
  /\ call.ret[<<0, 0, 0>>] = 0

ZeroTensor(shape) == [q \in Positions(batch_size, shape) |-> 0]

PoseThenMasks ==
  /\ Len(model.outputs) = 1 + num_levels
  /\ model.outputs[1].kind = "pose"
  /\ model.outputs[1].channels = 1 + pose_dim
  /\ model.outputs[1].shape = Last(output_tile_shapes)
  /\ \A l \in 1 .. num_levels :
       /\ model.outputs[1 + l].kind = "mask"
       /\ model.outputs[1 + l].level = l - 1
       /\ model.outputs[1 + l].channels = 1
       /\ model.outputs[1 + l].shape = output_tile_shapes[l]

\* C18: every constructed model of every class, for every num_levels >= 1,
\* returns 1 + num_levels tensors, the pose image with 1 + pose_dim channels
\* at the finest output shape first, then the masks of levels 0 .. n - 1 at
\* their output shapes, and is compiled with 1 + num_levels losses.
C18_PoseImageThenMasks ==
  (pc = "built" /\ AllPositive(output_tile_shapes))
    => PoseThenMasks /\ model.losses = Len(model.outputs)

C20_OddDepthRejected ==
  BlockRouted
    => /\ level_depth % 2 = 1
            => /\ pc \in {"new", "ValueError", "AssertionError"}
               /\ model = NoModel
       /\ pc = "built"
            => /\ level_depth % 2 = 0
               /\ \A i \in 1 .. 2 :
                    2 * blk.block_stride[i] = 2 * block_size[i] - level_depth

\* AutoSparseUNet(level_depth=1, batch_size=1): stopped by the assertion,
\* nothing wired
C20_WitnessRejected ==
  /\ variant = "AutoSparseUNet"
  /\ batch_size = 1
  /\ level_depth = 1
  /\ pc = "AssertionError"
  /\ model = NoModel

\* C21: a block-routed model whose block size exceeds the tile it blocks
\* (the bottom level's mask, of the base shape) in some dimension is never
\* constructed.
C21_OversizedBlockRejected ==
  (BlockRouted /\ \E i \in 1 .. 2 : block_size[i] > base_shape[i])
    => pc # "built"

\* C22: once a model is constructed, no shape computation, conversion or
\* forward-pass step changes its base shape, number of levels, level depth,
\* input tile shape or output tile shapes, and a shape computation leaves
\* the base-shape list it was passed as it was.
C22_GeometryFixedAfterConstruction ==
  [][pc = "built"
       => /\ base_shape' = base_shape
          /\ num_levels' = num_levels
          /\ level_depth' = level_depth
          /\ input_tile_shape' = input_tile_shape
          /\ output_tile_shapes' = output_tile_shapes
          /\ call'.op \in {"output_shapes", "input_shape"}
               => call'.obj = base_shape]_vars

\* base (4, 4), depth 0: the shapes for 3 levels were computed from the
\* model's base shape, (16, 16) at the top, and the model still holds (4, 4)
C22_Witness ==
  /\ pc = "built"
  /\ call.op = "output_shapes" /\ call.arg = 3
  /\ call.ret[3] = <<16, 16>>
  /\ call.obj = <<4, 4>>
  /\ base_shape = <<4, 4>>
  /\ output_tile_shapes =
       compute_output_tile_shapes_(<<4, 4>>, num_levels, level_depth)

\* C23: a point conversion that returns leaves the point object it was
\* passed with the value it had before the call, for every pair of levels.
C23_ConversionLeavesPointUnchanged ==
  (call.op = "point" /\ call.status = "ok") => call.obj = call.arg

\* C24: in a constructed block-routed model each of the three block specs
\* (block_size with block_stride, level_input_block_size with
\* level_input_block_stride, level_output_block_size with
\* level_output_block_stride) has a stride no larger than its size, in each
\* dimension.
C24_StrideAtMostSize ==
  (pc = "built" /\ BlockRouted)
    => \A i \in 1 .. 2 :
         /\ blk.block_stride[i] <= block_size[i]
         /\ blk.level_input_block_stride[i] <= blk.level_input_block_size[i]
         /\ blk.level_output_block_stride[i] <= blk.level_output_block_size[i]

\* block size 3, depth 2: strides 2, 4 and 2 under sizes 3, 6 and 2
C24_Witness ==
  /\ pc = "built" /\ BlockRouted
  /\ block_size = <<3, 3>> /\ level_depth = 2
  /\ blk.block_stride = <<2, 2>>
  /\ blk.level_input_block_stride = <<4, 4>>
  /\ blk.level_input_block_size = <<6, 6>>
  /\ blk.level_output_block_stride = <<2, 2>>
  /\ blk.level_output_block_size = <<2, 2>>

\* C25: train called with seconds = -1 and epochs > initial_epoch has, when
\* it returns, called fit once per epoch, for initial_epoch = e and
\* epochs = e + 1 with e from initial_epoch to epochs - 1, each call given
\* the history of the calls before it; the model is saved and the history
\* returned covers all these epochs.
C25_ReloadsEveryEpoch ==
  (train.pc = "done" /\ train.seconds = -1
     /\ train.epochs > train.initial_epoch)
    => /\ train.fits =
            [k \in 1 .. (train.epochs - train.initial_epoch) |->
               [hist |-> train.loaded
                           \o EpochRange(train.initial_epoch,
                                         train.initial_epoch + k - 1),
                initial_epoch |-> train.initial_epoch + k - 1,
                epochs |-> train.initial_epoch + k]]
       /\ train.saved
       /\ train.hist = train.loaded
                         \o EpochRange(train.initial_epoch, train.epochs)

\* a command as the claim sorts it: its name starts with '_' or it does not
\* name a callable attribute
BadCommand(command) ==
  \/ Len(command) > 0 /\ command[1] = "_"
  \/ command \notin Methods

\* C26: the commands run so far are the first commands of the list, in
\* order, and all good; __call__ only returns when every command was good
\* and has run; it stops in no other way than by RuntimeError, raised at a
\* bad command, with the commands after it not run.
C26_CommandsInOrderUntilBad ==
  LET c == artifice
  IN c.pc # "none"
       => /\ c.ran = SubSeq(c.commands, 1, c.pos - 1)
          /\ \A k \in 1 .. c.pos - 1 : ~BadCommand(c.commands[k])
          /\ c.pc = "done" => c.pos = Len(c.commands) + 1
          /\ c.pc \notin {"for", "done"}
               => /\ c.pc = "RuntimeError"
                  /\ BadCommand(c.commands[c.pos])

\* C27: in AutoSparseUNet's forward pass the count and the index list a
\* level hands to its gathers and scatters come from one selector call: the
\* count is the number of entries of the index list.
C27_CountMatchesIndexList ==
  (LevelRan /\ variant = "AutoSparseUNet")
    => step.count = Len(step.indices)

C29_ShapesAgreeWithDenseForward ==
  (pc = "built" /\ variant \in {"UNet", "SparseUNet"}) =>
    LET skips == level_outputs(Input(input_tile_shape), 0, level_filters,
                               level_depth)
        bottom == Encoder(Input(input_tile_shape), 0, level_filters,
                          level_depth)
    IN /\ bottom.shape = base_shape
       /\ Len(skips) = num_levels - 1
       /\ \A k \in 1 .. Len(skips) : \A d \in 1 .. 2 :
            skips[k].shape[d] % 2 = 0
       /\ \A l \in 0 .. num_levels - 1 :
            model.outputs[l + 2].shape = output_tile_shapes[l + 1]
       /\ model.outputs[1].shape = output_tile_shapes[num_levels]
       /\ \A i \in 1 .. num_levels - 1 :
            LET inputs == ShapeTimes2(output_tile_shapes[i])
                cropped == crop(skips[num_levels - i], inputs)
            IN /\ cropped.shape = inputs
               /\ \A d \in 1 .. 2 :
                    /\ cropped.cropping[d][1] >= 0
                    /\ cropped.cropping[d][1] = cropped.cropping[d][2]

\* a dense model of three levels whose skip connections are cropped
C29_Witness ==
  /\ pc = "built"
  /\ variant = "UNet"
  /\ num_levels = 3
  /\ level_depth = 1
  /\ base_shape = <<2, 2>>
  /\ input_tile_shape = <<22, 22>>
  /\ model.outputs[4].shape = <<2, 2>>
  /\ crop(level_outputs(Input(input_tile_shape), 0, level_filters,
                        level_depth)[1], <<4, 4>>).cropping[1] = <<8, 8>>

\* the unbatched outputs of the batches before batch i, in order
RECURSIVE TileOutputs(_, _, _)
TileOutputs(batches, i, heads) ==
  IF i <= 0 THEN <<>>
  ELSE TileOutputs(batches, i - 1, heads) \o
         [k \in 1 .. batches[i] |-> [h \in 1 .. heads |-> <<i - 1, k, h>>]]

RECURSIVE Flatten(_)
Flatten(groups) ==
  IF groups = <<>> THEN <<>> ELSE Head(groups) \o Flatten(Tail(groups))

\* C30: UNet.predict in eager mode loses no tile output: once i batches have
\* been handled, the predictions yielded (each made from num_tiles
\* consecutive outputs) followed by the buffer are the unbatched outputs of
\* those i batches in order, fewer than num_tiles outputs are buffered, and
\* the generator ends without an exception when the input is exhausted
C30_PredictLosesNoTileOutput ==
  (predict.pc # "none" /\ predict.eager) =>
    /\ predict.pc \notin {"NotImplementedError", "UnboundLocalError"}
    /\ predict.pc = "for" =>
         /\ Flatten(predict.yielded) \o predict.outputs =
              TileOutputs(predict.batches, predict.i, predict.heads)
         /\ \A g \in 1 .. Len(predict.yielded) :
              Len(predict.yielded[g]) = predict.num_tiles
         /\ Len(predict.outputs) < predict.num_tiles

====
